---- MODULE Spec2Model ----
(***************************************************************************)
(* KeKahu: the keep-alive client of the Kahu service.  The model covers    *)
(* the Run loop, the self-rescheduling Heartbeat, the Latency probe cycle  *)
(* it launches, the command line SendNPings, Shutdown, and the table of    *)
(* per-host latency statistics the probes feed.                            *)
(***************************************************************************)
EXTENDS Integers, Sequences, FiniteSets, TLC

(* ------------------------------ bounds --------------------------------- *)
NumPeers == 2
MaxCycles == 2
MaxPings == 2
MaxLatency == 1
MaxDelay == 2
MaxJitter == 2
MaxBeats == 2
ShutdownCycles == 1
MaxAddrLen == 4
NumHandlers == 2
MaxSeq == 2
MaxCalls == 4
MaxDuration == 3

Peers == 1..NumPeers
Cycles == 1..MaxCycles
Rounds == 1..MaxPings
ProbeIds == Cycles \X Rounds \X Peers

VARIABLES
    runpc,      \* Run / main: "new", "loop", "returned"
    delay,      \* k.delay
    done,       \* number of values buffered in k.done (capacity 1)
    pidfile,    \* TRUE while the PID file exists
    sigpc,      \* signalHandler / Shutdown position
    exited,     \* the process has exited
    freeErr,    \* k.pid.Free() returned an error to Shutdown
    beating,    \* Heartbeat executions inside the body
    hbBlocked,  \* Heartbeat executions blocked sending on k.echan
    response,   \* the HeartbeatResponse a Heartbeat execution has parsed
    timers,     \* delays of the timers armed by time.AfterFunc
    slots,      \* Latency launches the behaviour still follows
    cycles,     \* the Latency / SendNPings calls
    probes,     \* the probe goroutines of each call
    table,      \* k.network: host -> running statistics
    calls,      \* the calls of the table completed so far, in order
    writing,    \* host -> the duration an Update in progress is folding in
    report,     \* Report: its position and the records copied so far
    messages,   \* Server.messages
    handlers,   \* the Ping handlers of the echo server
    printed,    \* what Server.Shutdown has printed
    addr,       \* the address given to resolveAddr
    resolved,   \* what resolveAddr returned (empty: not called yet)
    health      \* HealthCheck: its arguments, loop position and result

vars == <<runpc, delay, done, pidfile, sigpc, exited, freeErr, beating,
          hbBlocked, response, timers, slots, cycles, probes, table, calls,
          writing, report, messages, handlers, printed, addr, resolved, health>>

procVars == <<runpc, delay, done, pidfile, sigpc, exited, freeErr>>
hbVars == <<beating, hbBlocked, response, timers, slots>>
tableVars == <<calls, writing, report>>
echoVars == <<messages, handlers, printed>>
addrVars == <<addr, resolved>>
healthVars == <<health>>
auxVars == <<tableVars, echoVars, addrVars, healthVars>>
kekahuVars == <<procVars, hbVars, cycles, probes>>

(* ------------------------- statistics table ---------------------------- *)
\* A host with no record yet.
NoRecord ==
    [present |-> FALSE, count |-> 0, timeouts |-> 0, total |-> 0,
     aggsq |-> 0, minimum |-> 0, maximum |-> 0]

\* new(stats.Benchmark): an empty record.
EmptyRecord == [NoRecord EXCEPT !.present = TRUE]

GetOrCreateMut(tbl, host) == [tbl EXCEPT ![host] = EmptyRecord]
\* The table's lookup: the host's record, created empty if absent.
GetOrCreate(tbl, host) ==
    IF tbl[host].present THEN tbl ELSE [tbl EXCEPT ![host] = EmptyRecord]

\* Number of samples in the latency distribution (timeouts excluded).
Samples(rec) == rec.count - rec.timeouts

\* Fold one duration into a record; the zero duration is a timeout.
BenchmarkUpdate(rec, d) ==
    IF d = 0
    THEN [rec EXCEPT !.count = @ + 1, !.timeouts = @ + 1]
    ELSE [rec EXCEPT !.count = @ + 1,
                     !.total = @ + d,
                     !.aggsq = @ + d * d,
                     !.minimum = IF Samples(rec) = 0 \/ d < @ THEN d ELSE @,
                     !.maximum = IF Samples(rec) = 0 \/ d > @ THEN d ELSE @]

\* The mean, variance numerators and denominators (exact fractions).
Mean(rec) == <<rec.total, Samples(rec)>>
Variance(rec) ==
    <<Samples(rec) * rec.aggsq - rec.total * rec.total,
      Samples(rec) * (Samples(rec) - 1)>>

NextSequenceMut(tbl, host) == GetOrCreate(tbl, host)[host].count
\* The sequence number of the next ping to the host: N() + 1.
NextSequence(tbl, host) == GetOrCreate(tbl, host)[host].count + 1

NextTableMut(tbl, host) ==
    [GetOrCreate(tbl, host) EXCEPT ![host].count = @ + 1]
\* The table after a sequence number was requested for the host.
NextTable(tbl, host) == GetOrCreate(tbl, host)

\* k.network.Update: one atomic read-modify-write of the host's record.
Update(tbl, host, d) ==
    [GetOrCreate(tbl, host) EXCEPT ![host] = BenchmarkUpdate(@, d)]

(* ------------------------------ helpers -------------------------------- *)
\* Remove the i-th element of a sequence.
RemoveAt(s, i) == SubSeq(s, 1, i - 1) \o SubSeq(s, i + 1, Len(s))

IdleProbe ==
    [pc |-> "none", seq |-> 0, lat |-> 0, err |-> FALSE, timeout |-> FALSE]
\* No HeartbeatResponse has been parsed.
NoResponse == [got |-> FALSE, success |-> FALSE, active |-> FALSE]
IdleCycle ==
    [pc |-> "idle", kind |-> "none", n |-> 0, report |-> FALSE, group |-> 0,
     source |-> "", listed |-> FALSE, targets |-> {}]

\* The probes a call spawns: n rounds over the target list.
Spawned(c, n, targets) ==
    {id \in ProbeIds : id[1] = c /\ id[2] <= n /\ id[3] \in targets}

ReceivingMut == FALSE
\* Run's select loop is ready to take a value from the unbuffered k.echan.
Receiving == runpc = "loop" /\ ~exited

InFlight == {"next", "ping", "senderr", "update", "report", "reporterr"}
Committed == {"report", "reporterr", "done"}
Active == {"neighbors", "senderr", "wait"}

(* ----------------------------- resolveAddr ----------------------------- *)
\* The characters addresses are made of: a letter, a digit and the colon.
Chars == {"a", "1", ":"}
Digits == {"1"}
Addrs == UNION {[1..n -> Chars] : n \in 0..MaxAddrLen}

\* const DefaultAddr = ":3284"
DefaultAddr == <<":", "3", "2", "8", "4">>

\* strings.Split(s, sep) for a one-character separator.
RECURSIVE Split(_, _)
Split(s, sep) ==
    IF \E i \in 1..Len(s) : s[i] = sep
    THEN LET i == CHOOSE k \in 1..Len(s) :
                     s[k] = sep /\ \A j \in 1..(k - 1) : s[j] # sep
         IN  <<SubSeq(s, 1, i - 1)>> \o Split(SubSeq(s, i + 1, Len(s)), sep)
    ELSE <<s>>

\* resolveAddr: append DefaultAddr when splitting on ":" gives one part.
resolveAddr(a) == IF Len(Split(a, ":")) = 1 THEN a \o DefaultAddr ELSE a

(* ----------------------------- echo server ----------------------------- *)
Handlers == 1..NumHandlers
\* s.name and the names requests may carry.
ServerName == "echo"
Names == {ServerName, "peer"}
Packets == [source : Names, target : Names, sequence : 1..MaxSeq]
NoPacket == [source |-> "", target |-> "", sequence |-> 0]

\* A handler: the request as the client sent it, the server's packet `in`,
\* the value of s.messages it loaded, and the packet it returned.
IdleHandler ==
    [pc |-> "idle", req |-> NoPacket, in |-> NoPacket, tmp |-> 0,
     out |-> NoPacket]
NotPrinted == [shown |-> FALSE, value |-> 0, handled |-> 0, busy |-> 0]

(* --------------------------- table, directly --------------------------- *)
NotWriting == [busy |-> FALSE, err |-> FALSE, lat |-> 0]
IdleReport ==
    [pc |-> "idle", at |-> 0, todo |-> {}, copy |-> [p \in Peers |-> NoRecord]]

(* ----------------------------- scheduling ------------------------------ *)
NextDelaysMut(base) == {base, base + 1}
DoubledDelayMut(base) == {base + base}
\* The delays Heartbeat may pass to time.AfterFunc: k.delay itself.
NextDelays(base) == {base}

DeferredMut == FALSE
\* The call of time.AfterFunc is deferred to Heartbeat's return.
Deferred == TRUE

\* The armed timers once a Heartbeat has started, and once it has returned.
Entered(ts, base) ==
    IF Deferred THEN {ts} ELSE {Append(ts, d) : d \in NextDelays(base)}
Returned(ts, base) ==
    IF Deferred THEN {Append(ts, d) : d \in NextDelays(base)} ELSE {ts}

(* ------------------------------- Init ---------------------------------- *)
Start ==
    /\ runpc = "new"
    /\ delay = 0
    /\ done = 0
    /\ pidfile = FALSE
    /\ sigpc = "off"
    /\ exited = FALSE
    /\ freeErr = FALSE
    /\ beating = 0
    /\ hbBlocked = 0
    /\ response = NoResponse
    /\ timers = <<>>
    /\ cycles = [c \in Cycles |-> IdleCycle]
    /\ probes = [id \in ProbeIds |-> IdleProbe]
    /\ table = [p \in Peers |-> NoRecord]

\* Nothing has called resolveAddr, the echo server or the table directly.
NoAddr == addr = <<>> /\ resolved = <<>>
NoEcho ==
    /\ messages = 0
    /\ handlers = [h \in Handlers |-> IdleHandler]
    /\ printed = NotPrinted
\* statusComponents: getHostStatus, getMemStatus, getDiskStatus, getCPUStatus,
\* getUtilizationStatus, getGoRuntime.
NumComponents == 6
Components == 1..NumComponents
\* HealthCheck's error result: 0 is nil, c the error of component c, and
\* AllFailedErr the error made after the loop.
AllFailedErr == NumComponents + 1
\* HealthCheck has not been called.
IdleHealth ==
    [pc |-> "idle", ignoreErrors |-> FALSE, fails |-> [c \in Components |-> FALSE],
     next |-> 1, statusErrors |-> 0, called |-> {}, status |-> FALSE, err |-> 0]
NoHealth == health = IdleHealth
NoCalls ==
    /\ calls = <<>>
    /\ writing = [p \in Peers |-> NotWriting]
    /\ report = IdleReport

Init == Start /\ slots = MaxCycles /\ NoAddr /\ NoEcho /\ NoCalls /\ NoHealth
InitShutdown == Start /\ slots = ShutdownCycles /\ NoAddr /\ NoEcho /\ NoCalls /\ NoHealth

(* ----------------------------- Run, main ------------------------------- *)
\* The process exits: its goroutines, channels and table are gone; the PID
\* file stays as it is on disk.
Halt ==
    /\ exited' = TRUE
    /\ runpc' = "exited"
    /\ sigpc' = "off"
    /\ delay' = 0
    /\ done' = 0
    /\ freeErr' = FALSE
    /\ beating' = 0
    /\ hbBlocked' = 0
    /\ response' = NoResponse
    /\ timers' = <<>>
    /\ slots' = 0
    /\ cycles' = [c \in Cycles |-> IdleCycle]
    /\ probes' = [id \in ProbeIds |-> IdleProbe]
    /\ table' = [p \in Peers |-> NoRecord]
    /\ pidfile' = pidfile
    /\ UNCHANGED auxVars

\* A goroutine panics and nothing recovers: the runtime ends the process.
Panic ==
    /\ exited' = TRUE
    /\ runpc' = "panicked"
    /\ sigpc' = "off"
    /\ delay' = 0
    /\ done' = 0
    /\ freeErr' = FALSE
    /\ beating' = 0
    /\ hbBlocked' = 0
    /\ response' = NoResponse
    /\ timers' = <<>>
    /\ slots' = 0
    /\ cycles' = [c \in Cycles |-> IdleCycle]
    /\ probes' = [id \in ProbeIds |-> IdleProbe]
    /\ table' = [p \in Peers |-> NoRecord]
    /\ pidfile' = pidfile
    /\ UNCHANGED auxVars

\* Run: save the PID file, make the channels, start the signal handler, the
\* echo server and the first Heartbeat, then enter the select loop.
Run ==
    /\ runpc = "new" /\ ~exited
    /\ \E d \in 1..MaxDelay : delay' = d
    /\ runpc' = "loop"
    /\ pidfile' = TRUE
    /\ sigpc' = "wait"
    /\ beating' = 1
    /\ timers' \in Entered(timers, delay')
    /\ UNCHANGED <<auxVars, done, exited, freeErr, hbBlocked, response, slots, cycles,
                   probes, table>>

\* Run returns an error before the loop (the PID file exists, or the echo
\* server cannot listen); the command exits.
RunFail ==
    /\ runpc = "new" /\ ~exited
    /\ Halt

RunDoneMut ==
    /\ Receiving /\ hbBlocked > 0
    /\ runpc' = "returned"
    /\ UNCHANGED <<auxVars, delay, done, pidfile, sigpc, exited, freeErr, hbVars, cycles,
                   probes, table>>
\* Run's loop takes true from k.done and breaks.
RunDone ==
    /\ Receiving /\ done > 0
    /\ done' = done - 1
    /\ runpc' = "returned"
    /\ UNCHANGED <<auxVars, delay, pidfile, sigpc, exited, freeErr, hbVars, cycles,
                   probes, table>>

\* main returns after Run has returned: the process exits.
MainExit ==
    /\ runpc = "returned" /\ ~exited
    /\ Halt

(* ----------------------- signalHandler, Shutdown ----------------------- *)
SignalMut ==
    /\ sigpc = "wait" /\ ~exited
    /\ sigpc' = "notify"
    /\ UNCHANGED <<auxVars, runpc, delay, done, pidfile, exited, freeErr, hbVars, cycles,
                   probes, table>>
\* A signal arrives and Shutdown runs: the echo server's Shutdown returns
\* nil, then k.pid.Free() removes the file or its error is sent on k.echan.
Signal ==
    /\ sigpc = "wait" /\ ~exited
    /\ \E ok \in BOOLEAN :
          /\ IF ok THEN pidfile' = FALSE /\ sigpc' = "notify"
                   ELSE pidfile' = pidfile /\ sigpc' = "senderr"
          /\ freeErr' = ~ok
    /\ UNCHANGED <<auxVars, runpc, delay, done, exited, hbVars, cycles, probes, table>>

\* The error of k.pid.Free() is received by Run.
ShutdownSendErr ==
    /\ sigpc = "senderr" /\ Receiving
    /\ sigpc' = "notify"
    /\ UNCHANGED <<auxVars, runpc, delay, done, pidfile, exited, freeErr, hbVars,
                   cycles, probes, table>>

\* k.done <- true on the channel of capacity 1.
ShutdownNotify ==
    /\ sigpc = "notify" /\ ~exited
    /\ done < 1
    /\ done' = done + 1
    /\ sigpc' = "exit"
    /\ UNCHANGED <<auxVars, runpc, delay, pidfile, exited, freeErr, hbVars, cycles,
                   probes, table>>

\* os.Exit(0) after Shutdown returned nil.
SignalExit ==
    /\ sigpc = "exit" /\ ~exited
    /\ Halt

(* ------------------------------ Heartbeat ------------------------------ *)
\* A timer fires and runs Heartbeat in its own goroutine.
HeartbeatFire ==
    /\ ~exited
    /\ beating + hbBlocked < MaxBeats
    /\ \E i \in 1..Len(timers) :
          timers' \in Entered(RemoveAt(timers, i), delay)
    /\ beating' = beating + 1
    /\ UNCHANGED <<auxVars, procVars, hbBlocked, response, slots, cycles, probes, table>>

\* Load, encodeRequest, newRequest, doRequest or Parse fails: the error is
\* sent on k.echan.
HeartbeatFail ==
    /\ ~exited
    /\ beating > 0 /\ ~response.got
    /\ beating' = beating - 1
    /\ hbBlocked' = hbBlocked + 1
    /\ UNCHANGED <<auxVars, procVars, response, timers, slots, cycles, probes, table>>

\* The error is received by Run; Heartbeat returns and the deferred
\* time.AfterFunc arms the next run.
HeartbeatSendErr ==
    /\ Receiving
    /\ hbBlocked > 0
    /\ hbBlocked' = hbBlocked - 1
    /\ timers' \in Returned(timers, delay)
    /\ UNCHANGED <<auxVars, procVars, beating, response, slots, cycles, probes, table>>

\* The lowest call slot not yet used.
FreeCycle == CHOOSE c \in Cycles :
    cycles[c].pc = "idle" /\ \A b \in Cycles : cycles[b].pc = "idle" => c <= b

LaunchesMut(success, active) == success
\* The test before go k.Latency(true): hb.Success && hb.Active.
Launches(success, active) == success /\ active

\* doRequest returned a 200 response and hb.Parse decodes its body.
HeartbeatParse ==
    /\ ~exited
    /\ beating > 0 /\ ~response.got
    /\ \E success, active \in BOOLEAN :
          /\ Launches(success, active) => slots > 0
          /\ response' = [got |-> TRUE, success |-> success, active |-> active]
    /\ UNCHANGED <<auxVars, procVars, beating, hbBlocked, timers, slots, cycles,
                   probes, table>>

\* With success and active, go k.Latency(true).  Heartbeat returns and the
\* deferred time.AfterFunc arms the next run.
HeartbeatOk ==
    /\ ~exited
    /\ beating > 0 /\ response.got
    /\ IF Launches(response.success, response.active)
       THEN /\ slots > 0
            /\ slots' = slots - 1
            /\ cycles' = [cycles EXCEPT ![FreeCycle] =
                  [IdleCycle EXCEPT !.pc = "neighbors", !.kind = "Latency",
                                    !.n = 1, !.report = TRUE]]
       ELSE cycles' = cycles /\ slots' = slots
    /\ response' = NoResponse
    /\ beating' = beating - 1
    /\ timers' \in Returned(timers, delay)
    /\ UNCHANGED <<auxVars, procVars, hbBlocked, probes, table>>

(* --------------------------- SendNPings (CLI) -------------------------- *)
\* The ping command: SendNPings(n) without Run; k.echan is nil.
SendNPings ==
    /\ runpc = "new" /\ ~exited
    /\ \E n \in Rounds :
          cycles' = [cycles EXCEPT ![1] =
              [IdleCycle EXCEPT !.pc = "neighbors", !.kind = "SendNPings",
                                !.n = n, !.report = FALSE]]
    /\ runpc' = "ping"
    /\ UNCHANGED <<auxVars, delay, done, pidfile, sigpc, exited, freeErr, hbVars, probes,
                   table>>

(* ------------------------- Neighbors, the join ------------------------- *)
\* newRequest, doRequest or the decoding fails: the error is sent on k.echan.
NeighborsFail(c) ==
    /\ ~exited
    /\ cycles[c].pc = "neighbors"
    /\ cycles' = [cycles EXCEPT ![c].pc = "senderr"]
    /\ UNCHANGED <<auxVars, procVars, hbVars, probes, table>>

\* The error is received; Neighbors returns ("", nil) and the call returns.
NeighborsSendErr(c) ==
    /\ Receiving
    /\ cycles[c].pc = "senderr"
    /\ cycles' = [cycles EXCEPT ![c].pc = "returned"]
    /\ UNCHANGED <<auxVars, procVars, hbVars, probes, table>>

\* The body of the 200 response is the JSON value null: Decode(&info) sets
\* info to nil without an error, and info.Source dereferences the nil pointer.
NeighborsNull(c) ==
    /\ ~exited
    /\ cycles[c].pc = "neighbors"
    /\ Panic

NothingToProbeMut(kind, source, nil, list) == nil
\* The test after k.Neighbors(): source == "" || targets == nil, and for
\* SendNPings also len(targets) == 0.
NothingToProbe(kind, source, nil, list) ==
    \/ source = ""
    \/ nil
    \/ kind = "SendNPings" /\ list = {}

\* Neighbors returns the decoded source and targets.  With no source or nil
\* targets the call returns; otherwise it spawns one probe per target and
\* round, each preceded by group.Add(1), and waits.
NeighborsOk(c) ==
    /\ ~exited
    /\ cycles[c].pc = "neighbors"
    /\ \E source \in {"", "host"}, nil \in BOOLEAN, list \in SUBSET Peers :
          /\ nil => list = {}
          /\ IF NothingToProbe(cycles[c].kind, source, nil, list)
             THEN /\ cycles' = [cycles EXCEPT ![c].pc = "returned",
                                    ![c].source = source,
                                    ![c].listed = ~nil]
                  /\ probes' = probes
             ELSE /\ cycles' = [cycles EXCEPT ![c].pc = "wait",
                                    ![c].source = source,
                                    ![c].listed = ~nil,
                                    ![c].targets = list,
                                    ![c].group = cycles[c].n * Cardinality(list)]
                  /\ probes' = [id \in ProbeIds |->
                        IF id \in Spawned(c, cycles[c].n, list)
                        THEN [IdleProbe EXCEPT !.pc = "next"]
                        ELSE probes[id]]
    /\ UNCHANGED <<auxVars, procVars, hbVars, table>>

GroupWaitMut(c) == TRUE
\* group.Wait() returns when the WaitGroup counter is zero.
GroupWait(c) == cycles[c].group = 0

\* Latency / SendNPings return after group.Wait().
CycleReturn(c) ==
    /\ ~exited
    /\ cycles[c].pc = "wait"
    /\ GroupWait(c)
    /\ cycles' = [cycles EXCEPT ![c].pc = "returned"]
    /\ UNCHANGED <<auxVars, procVars, hbVars, probes, table>>

(* ------------------------------- probes -------------------------------- *)
RecordedMut(err, measured) == 0
SentinelMut(err, measured) == IF err THEN 1 ELSE measured
KeptLatencyMut(err, measured) == IF err THEN MaxLatency ELSE measured
TimeoutAsSampleMut(err, measured) == IF err THEN MaxDuration ELSE measured
\* The duration a probe commits: the measured latency, or time.Duration(0)
\* when the ping returned an error.
Recorded(err, measured) == IF err THEN 0 ELSE measured

\* What KeKahu.Ping may return: (0, err) or (latency, nil).
PingResults ==
    {[err |-> TRUE, lat |-> 0]} \cup
    {[err |-> FALSE, lat |-> d] : d \in 1..MaxLatency}

SerialMut(c, i, p) ==
    /\ ~exited
    /\ \A id \in ProbeIds :
          (id # <<c, i, p>> /\ id[3] = p) =>
              probes[id].pc \notin {"ping", "senderr", "update"}
RunnableMut(c, i, p) ==
    /\ ~exited
    /\ \A id \in Spawned(c, cycles[c].n, cycles[c].targets) :
          (id[2] < i \/ (id[2] = i /\ id[3] < p)) => probes[id].pc = "done"
\* Every probe runs in a goroutine of its own (go func(target) {...}).
Runnable(c, i, p) == ~exited

\* sequence := k.network.Next(target.Hostname)
ProbeNext(c, i, p) ==
    /\ Runnable(c, i, p)
    /\ probes[<<c, i, p>>].pc = "next"
    /\ probes' = [probes EXCEPT ![<<c, i, p>>].pc = "ping",
                                ![<<c, i, p>>].seq = NextSequence(table, p)]
    /\ table' = NextTable(table, p)
    /\ UNCHANGED <<auxVars, procVars, hbVars, cycles>>

\* latency, err := k.Ping(...).  Latency sends an error on k.echan before it
\* zeroes the latency; SendNPings prints a mark and zeroes it at once.
ProbePing(c, i, p) ==
    /\ Runnable(c, i, p)
    /\ probes[<<c, i, p>>].pc = "ping"
    /\ \E r \in PingResults :
          probes' = [probes EXCEPT ![<<c, i, p>>] =
              [@ EXCEPT !.err = r.err,
                        !.seq = 0,
                        !.lat = IF r.err /\ cycles[c].kind = "Latency"
                                THEN r.lat ELSE Recorded(r.err, r.lat),
                        !.pc = IF r.err /\ cycles[c].kind = "Latency"
                               THEN "senderr" ELSE "update"]]
    /\ UNCHANGED <<auxVars, procVars, hbVars, cycles, table>>

AfterSendErrMut == "done"
\* Where a probe of Latency continues once its ping error was received.
AfterSendErr == "update"

\* group.Done(), deferred to the return of the probe goroutine.
Finish(c) == [cycles EXCEPT ![c].group = @ - 1]

\* The ping error is received by Run: latency = time.Duration(0).
ProbeSendErr(c, i, p) ==
    /\ Receiving
    /\ probes[<<c, i, p>>].pc = "senderr"
    /\ probes' = [probes EXCEPT ![<<c, i, p>>].pc = AfterSendErr,
                                ![<<c, i, p>>].lat = Recorded(TRUE, @)]
    /\ cycles' = IF AfterSendErr = "done" THEN Finish(c) ELSE cycles
    /\ UNCHANGED <<auxVars, procVars, hbVars, table>>

ProbeUpdateMut(c, i, p) ==
    /\ Runnable(c, i, p)
    /\ probes[<<c, i, p>>].pc = "update"
    /\ IF cycles[c].report
       THEN /\ probes' = [probes EXCEPT ![<<c, i, p>>].pc = "report"]
            /\ cycles' = cycles
            /\ table' = table
       ELSE /\ probes' = [probes EXCEPT ![<<c, i, p>>].pc = "done"]
            /\ cycles' = Finish(c)
            /\ table' = Update(table, p, probes[<<c, i, p>>].lat)
    /\ UNCHANGED <<auxVars, procVars, hbVars>>
\* k.network.Update(target.Hostname, latency)
ProbeUpdate(c, i, p) ==
    /\ Runnable(c, i, p)
    /\ probes[<<c, i, p>>].pc = "update"
    /\ table' = Update(table, p, probes[<<c, i, p>>].lat)
    /\ IF cycles[c].report
       THEN /\ probes' = [probes EXCEPT ![<<c, i, p>>].pc = "report"]
            /\ cycles' = cycles
       ELSE /\ probes' = [probes EXCEPT ![<<c, i, p>>].pc = "done"]
            /\ cycles' = Finish(c)
    /\ UNCHANGED <<auxVars, procVars, hbVars>>

ReportTimeoutMut(lat) == lat # 0
\* UpdateLatencyRequest.Init: the Timeout field of the report.
ReportTimeout(lat) == lat = 0

\* k.latency(target, latency): update.Init builds the report, then the post
\* succeeds and the probe returns, or its error is sent on k.echan.
ProbeReport(c, i, p) ==
    /\ Runnable(c, i, p)
    /\ probes[<<c, i, p>>].pc = "report"
    /\ \E ok \in BOOLEAN :
          IF ok
          THEN /\ probes' = [probes EXCEPT
                     ![<<c, i, p>>].pc = "done",
                     ![<<c, i, p>>].timeout = ReportTimeout(probes[<<c, i, p>>].lat)]
               /\ cycles' = Finish(c)
          ELSE /\ probes' = [probes EXCEPT
                     ![<<c, i, p>>].pc = "reporterr",
                     ![<<c, i, p>>].timeout = ReportTimeout(probes[<<c, i, p>>].lat)]
               /\ cycles' = cycles
    /\ UNCHANGED <<auxVars, procVars, hbVars, table>>

\* The report error is received by Run; the probe returns.
ProbeReportErr(c, i, p) ==
    /\ Receiving
    /\ probes[<<c, i, p>>].pc = "reporterr"
    /\ probes' = [probes EXCEPT ![<<c, i, p>>].pc = "done"]
    /\ cycles' = Finish(c)
    /\ UNCHANGED <<auxVars, procVars, hbVars, table>>

(* ------------------------- resolveAddr, called ------------------------- *)
\* addr = resolveAddr(addr), the first statement of KeKahu.Ping.
ResolveAddr ==
    /\ resolved = <<>>
    /\ resolved' = resolveAddr(addr)
    /\ UNCHANGED <<kekahuVars, health, table, tableVars, echoVars, addr>>

(* ------------------------- echo server, serving ------------------------ *)
ReplyMut(name, in) == in
\* in.Target = s.name; return in
Reply(name, in) == [in EXCEPT !.target = name]

\* A Ping request arrives; gRPC runs its handler in a goroutine of its own.
PingReceive(h) ==
    /\ handlers[h].pc = "idle"
    /\ \E pkt \in Packets :
          handlers' = [handlers EXCEPT ![h] =
              [IdleHandler EXCEPT !.pc = "load", !.req = pkt, !.in = pkt]]
    /\ UNCHANGED <<kekahuVars, health, table, tableVars, addrVars, messages, printed>>

\* s.messages++ : the read of the unsynchronised counter ...
PingLoad(h) ==
    /\ handlers[h].pc = "load"
    /\ handlers' = [handlers EXCEPT ![h].pc = "store", ![h].tmp = messages]
    /\ UNCHANGED <<kekahuVars, health, table, tableVars, addrVars, messages, printed>>

\* ... and the write of the value read plus one.
PingStore(h) ==
    /\ handlers[h].pc = "store"
    /\ messages' = handlers[h].tmp + 1
    /\ handlers' = [handlers EXCEPT ![h].pc = "reply"]
    /\ UNCHANGED <<kekahuVars, health, table, tableVars, addrVars, printed>>

\* The handler overwrites the target of its packet and returns the packet.
PingReply(h) ==
    /\ handlers[h].pc = "reply"
    /\ handlers' = [handlers EXCEPT
          ![h].pc = "done",
          ![h].in = Reply(ServerName, handlers[h].in),
          ![h].out = Reply(ServerName, handlers[h].in)]
    /\ UNCHANGED <<kekahuVars, health, table, tableVars, addrVars, messages, printed>>

\* Server.Shutdown: status("replied to %d pings", s.messages).  Nothing stops
\* the gRPC server first, so handlers may be running.
ServerShutdown ==
    /\ ~printed.shown
    /\ printed' =
          [shown |-> TRUE, value |-> messages,
           handled |-> Cardinality({h \in Handlers : handlers[h].pc = "done"}),
           busy |-> Cardinality({h \in Handlers :
                        handlers[h].pc \in {"load", "store", "reply"}})]
    /\ UNCHANGED <<kekahuVars, health, table, tableVars, addrVars, messages, handlers>>

(* ------------------ the table under a sequential caller ---------------- *)
\* What a ping gives the caller: (0, err) or (latency, nil).
CallResults ==
    {[err |-> TRUE, lat |-> 0]} \cup
    {[err |-> FALSE, lat |-> d] : d \in 1..MaxDuration}

\* sequence := k.network.Next(host), by a caller that makes one call at a
\* time.
CallNext(p) ==
    /\ Len(calls) < MaxCalls
    /\ ~writing[p].busy /\ report.at # p
    /\ calls' = Append(calls, [op |-> "Next", host |-> p, err |-> FALSE,
                                val |-> NextSequence(table, p)])
    /\ table' = NextTable(table, p)
    /\ UNCHANGED <<kekahuVars, health, writing, report, echoVars, addrVars>>

\* k.network.Update(host, latency) with the latency of a ping that returned
\* r: zero when it returned an error.
CallUpdate(p, r) ==
    /\ Len(calls) < MaxCalls
    /\ calls' = Append(calls, [op |-> "Update", host |-> p, err |-> r.err,
                                val |-> r.lat])
    /\ table' = Update(table, p, Recorded(r.err, r.lat))
    /\ UNCHANGED <<kekahuVars, health, writing, report, echoVars, addrVars>>

(* ---------------- the table under concurrent callers, Report ------------ *)
\* Calls begun: those completed and the Updates in progress.
Begun == Len(calls) + Cardinality({p \in Peers : writing[p].busy})

\* Update takes the record's lock and starts to fold the latency in: the
\* count is written first.
UpdateBegin(p, r) ==
    /\ Begun < MaxCalls
    /\ ~writing[p].busy /\ report.at # p
    /\ writing' = [writing EXCEPT ![p] =
          [busy |-> TRUE, err |-> r.err, lat |-> r.lat]]
    /\ table' = [GetOrCreate(table, p) EXCEPT ![p].count = @ + 1]
    /\ UNCHANGED <<kekahuVars, health, calls, report, echoVars, addrVars>>

\* Update writes the other fields and releases the lock.
UpdateEnd(p) ==
    /\ writing[p].busy
    /\ table' = [table EXCEPT ![p] =
          BenchmarkUpdate([@ EXCEPT !.count = @ - 1],
                          Recorded(writing[p].err, writing[p].lat))]
    /\ writing' = [writing EXCEPT ![p] = NotWriting]
    /\ calls' = Append(calls, [op |-> "Update", host |-> p,
                                err |-> writing[p].err, val |-> writing[p].lat])
    /\ UNCHANGED <<kekahuVars, health, report, echoVars, addrVars>>

MetricsMut ==
    /\ report.pc = "idle"
    /\ report' = [IdleReport EXCEPT !.pc = "done", !.copy = table]
    /\ UNCHANGED <<kekahuVars, health, table, calls, writing, echoVars, addrVars>>
\* Metrics: k.network.Report() starts with the hosts that have a record.
Metrics ==
    /\ report.pc = "idle"
    /\ LET hosts == {p \in Peers : table[p].present} IN
          report' = [IdleReport EXCEPT
              !.pc = IF hosts = {} THEN "done" ELSE "run", !.todo = hosts]
    /\ UNCHANGED <<kekahuVars, health, table, calls, writing, echoVars, addrVars>>

\* Report may take the lock of a record no Update is writing.
Readable(p) == ~writing[p].busy

\* Report takes the lock of the next record ...
ReportLock(p) ==
    /\ report.pc = "run" /\ p \in report.todo
    /\ Readable(p)
    /\ report' = [report EXCEPT !.pc = "locked", !.at = p]
    /\ UNCHANGED <<kekahuVars, health, table, calls, writing, echoVars, addrVars>>

\* ... copies it, and releases the lock.
ReportCopy ==
    /\ report.pc = "locked"
    /\ report' = [report EXCEPT
          !.copy[report.at] = table[report.at],
          !.todo = @ \ {report.at},
          !.at = 0,
          !.pc = IF report.todo = {report.at} THEN "done" ELSE "run"]
    /\ UNCHANGED <<kekahuVars, health, table, calls, writing, echoVars, addrVars>>

(* ----------------------------- HealthCheck ----------------------------- *)
AllFailedMut(n) == n > 0
\* len(statusErrors) == len(statusComponents)
AllFailed(n) == n = NumComponents

\* One iteration of the loop over statusComponents: the check is called; its
\* error is appended to statusErrors and, unless ignoreErrors, returned at once
\* with a nil status.
HealthComponent ==
    /\ health.pc = "loop" /\ health.next <= NumComponents
    /\ LET c == health.next
           failed == health.fails[c]
           errs == health.statusErrors + (IF failed THEN 1 ELSE 0)
       IN  health' =
             IF failed /\ ~health.ignoreErrors
             THEN [health EXCEPT !.pc = "returned", !.called = @ \cup {c},
                                 !.statusErrors = errs, !.status = FALSE, !.err = c]
             ELSE [health EXCEPT !.next = c + 1, !.called = @ \cup {c},
                                 !.statusErrors = errs]
    /\ UNCHANGED <<kekahuVars, table, tableVars, echoVars, addrVars>>

\* After the loop: an error and a nil status if every component failed,
\* otherwise the status and a nil error.
HealthReturn ==
    /\ health.pc = "loop" /\ health.next > NumComponents
    /\ health' =
          IF AllFailed(health.statusErrors)
          THEN [health EXCEPT !.pc = "returned", !.status = FALSE, !.err = AllFailedErr]
          ELSE [health EXCEPT !.pc = "returned", !.status = TRUE, !.err = 0]
    /\ UNCHANGED <<kekahuVars, table, tableVars, echoVars, addrVars>>

(* ------------------------------ behaviour ------------------------------ *)
\* The steps of the run and ping commands while no OS signal arrives.
Quiet ==
    \/ Run
    \/ RunFail
    \/ HeartbeatFire
    \/ HeartbeatFail
    \/ HeartbeatSendErr
    \/ HeartbeatParse
    \/ HeartbeatOk
    \/ SendNPings
    \/ \E c \in Cycles : NeighborsFail(c)
    \/ \E c \in Cycles : NeighborsSendErr(c)
    \/ \E c \in Cycles : NeighborsOk(c)
    \/ \E c \in Cycles : NeighborsNull(c)
    \/ \E c \in Cycles : CycleReturn(c)
    \/ \E id \in ProbeIds : ProbeNext(id[1], id[2], id[3])
    \/ \E id \in ProbeIds : ProbePing(id[1], id[2], id[3])
    \/ \E id \in ProbeIds : ProbeSendErr(id[1], id[2], id[3])
    \/ \E id \in ProbeIds : ProbeUpdate(id[1], id[2], id[3])
    \/ \E id \in ProbeIds : ProbeReport(id[1], id[2], id[3])
    \/ \E id \in ProbeIds : ProbeReportErr(id[1], id[2], id[3])

\* The whole program: a signal may arrive at any time.
Next ==
    \/ Quiet
    \/ Signal
    \/ ShutdownSendErr
    \/ ShutdownNotify
    \/ SignalExit
    \/ RunDone
    \/ MainExit

\* The commands while no signal arrives, MaxCycles launches of Latency followed.
Spec == Init /\ [][Quiet]_vars

\* The whole program with ShutdownCycles launches of Latency followed.
SpecShutdown == InitShutdown /\ [][Next]_vars

\* The whole program under the scheduling the Go runtime gives: an armed
\* timer fires, a running Heartbeat reaches one of its returns, a send on
\* k.echan completes while Run receives, and a process that is exiting exits.
SpecLive ==
    /\ InitShutdown /\ [][Next]_vars
    /\ WF_vars(HeartbeatFire)
    /\ WF_vars(HeartbeatParse \/ HeartbeatFail)
    /\ WF_vars(HeartbeatOk)
    /\ WF_vars(HeartbeatSendErr)
    /\ WF_vars(ShutdownSendErr)
    /\ \A c \in Cycles : WF_vars(NeighborsSendErr(c))
    /\ \A id \in ProbeIds : WF_vars(ProbeSendErr(id[1], id[2], id[3]))
    /\ \A id \in ProbeIds : WF_vars(ProbeReportErr(id[1], id[2], id[3]))
    /\ WF_vars(MainExit)
    /\ WF_vars(SignalExit)

\* resolveAddr applied to every address of at most MaxAddrLen characters.
InitAddr ==
    /\ Start /\ slots = 0 /\ NoEcho /\ NoCalls /\ NoHealth
    /\ addr \in Addrs /\ resolved = <<>>
SpecAddr == InitAddr /\ [][ResolveAddr]_vars

\* The echo server answering NumHandlers requests, and its Shutdown.
NextEcho ==
    \/ \E h \in Handlers : PingReceive(h)
    \/ \E h \in Handlers : PingLoad(h)
    \/ \E h \in Handlers : PingStore(h)
    \/ \E h \in Handlers : PingReply(h)
    \/ ServerShutdown
InitEcho == Start /\ slots = 0 /\ NoAddr /\ NoEcho /\ NoCalls /\ NoHealth
SpecEcho == InitEcho /\ [][NextEcho]_vars

\* HealthCheck under every ignoreErrors and every outcome of its components.
InitHealth ==
    /\ Start /\ slots = 0 /\ NoAddr /\ NoEcho /\ NoCalls
    /\ health \in {[IdleHealth EXCEPT !.pc = "loop", !.ignoreErrors = i, !.fails = f] :
                      i \in BOOLEAN, f \in [Components -> BOOLEAN]}
NextHealth == HealthComponent \/ HealthReturn
SpecHealth == InitHealth /\ [][NextHealth]_vars

\* The table under every sequence of at most MaxCalls calls made one at a time.
NextCalls ==
    \/ \E p \in Peers : CallNext(p)
    \/ \E p \in Peers, r \in CallResults : CallUpdate(p, r)
InitCalls == Start /\ slots = 0 /\ NoAddr /\ NoEcho /\ NoCalls /\ NoHealth
SpecCalls == InitCalls /\ [][NextCalls]_vars

\* The table under concurrent Updates and a Report, at most MaxCalls calls.
NextSnapshot ==
    \/ \E p \in Peers : CallNext(p)
    \/ \E p \in Peers, r \in CallResults : UpdateBegin(p, r)
    \/ \E p \in Peers : UpdateEnd(p)
    \/ Metrics
    \/ \E p \in Peers : ReportLock(p)
    \/ ReportCopy
SpecSnapshot == InitCalls /\ [][NextSnapshot]_vars

(* ------------------------------- claims -------------------------------- *)
\* The probes of host p that have committed their result.
CommittedProbes(p) ==
    {id \in ProbeIds : id[3] = p /\ probes[id].pc \in Committed}

\* The probes of call c.
ProbesOf(c) == Spawned(c, cycles[c].n, cycles[c].targets)

\* C1: when the n >= 1 concurrent probes SendNPings spawned for one host have
\* all completed with a successful ping, the host's count is n and its
\* timeouts is 0, whatever the interleaving.
C1_NoLostUpdates ==
    \A c \in Cycles : \A p \in cycles[c].targets :
        ( /\ cycles[c].kind = "SendNPings"
          /\ \A i \in 1..cycles[c].n :
                probes[<<c, i, p>>].pc = "done" /\ ~probes[<<c, i, p>>].err )
        => table[p].count = cycles[c].n /\ table[p].timeouts = 0

C1_Witness ==
    \E c \in Cycles : \E p \in cycles[c].targets :
        /\ cycles[c].kind = "SendNPings" /\ cycles[c].n >= 2
        /\ cycles[c].pc = "returned"
        /\ \A i \in 1..cycles[c].n :
              probes[<<c, i, p>>].pc = "done" /\ ~probes[<<c, i, p>>].err
        /\ table[p].count = cycles[c].n

\* C2: every probe commits exactly one record whether its ping succeeded or
\* failed: a host's count is the number of probes that passed their commit,
\* its timeouts the number of those whose ping failed, and a call that has
\* returned has committed one probe per round for each listed host.
C2_OneRecordPerProbe ==
    /\ \A p \in Peers :
          /\ table[p].count = Cardinality(CommittedProbes(p))
          /\ table[p].timeouts =
                Cardinality({id \in CommittedProbes(p) : probes[id].err})
    /\ \A c \in Cycles : cycles[c].pc = "returned" =>
          \A p \in cycles[c].targets :
             Cardinality({id \in CommittedProbes(p) : id[1] = c}) = cycles[c].n

C2_Witness ==
    \E p \in Peers :
        /\ \A c \in Cycles :
              /\ cycles[c].kind = "Latency" /\ cycles[c].pc = "returned"
              /\ p \in cycles[c].targets
              /\ probes[<<c, 1, p>>].err
        /\ table[p].count = MaxCycles /\ table[p].timeouts = MaxCycles

\* C3: when a probe whose ping failed commits its result (the zero-duration
\* sentinel), the host's count and timeouts grow by exactly 1, its mean,
\* variance, minimum and maximum stay as they were, and the records of all
\* other hosts are unchanged.
C3_TimeoutFrame ==
    [][\A id \in ProbeIds :
          ( /\ probes[id].pc = "update" /\ probes[id].err
            /\ probes'[id].pc \in {"report", "done"} )
          => /\ table'[id[3]].count = table[id[3]].count + 1
             /\ table'[id[3]].timeouts = table[id[3]].timeouts + 1
             /\ Mean(table'[id[3]]) = Mean(table[id[3]])
             /\ Variance(table'[id[3]]) = Variance(table[id[3]])
             /\ table'[id[3]].minimum = table[id[3]].minimum
             /\ table'[id[3]].maximum = table[id[3]].maximum
             /\ \A q \in Peers \ {id[3]} : table'[q] = table[q]]_vars

C3_Witness ==
    \E id \in ProbeIds :
        /\ probes[id].pc \in {"report", "done"} /\ probes[id].err
        /\ table[id[3]].timeouts >= 1
        /\ Samples(table[id[3]]) >= 1
        /\ table[id[3]].minimum = 1

\* C4: a call of Latency or SendNPings returns only after every probe it
\* spawned has finished: once it has returned, none of its probes is in
\* flight, each of them is done and the WaitGroup counter is zero.
C4_StructuredJoin ==
    \A c \in Cycles : cycles[c].pc = "returned" =>
        /\ cycles[c].group = 0
        /\ \A id \in ProbeIds :
              id[1] = c => probes[id].pc \notin InFlight
        /\ \A id \in ProbesOf(c) : probes[id].pc = "done"

C4_Witness ==
    \E c \in Cycles :
        /\ cycles[c].pc = "returned"
        /\ Cardinality(ProbesOf(c)) >= 2
        /\ \A id \in ProbesOf(c) : probes[id].pc = "done"

\* A probe's own ping or report has failed.
Failed(id) == probes[id].pc \in {"senderr", "reporterr"} \/ probes[id].err

\* C5: a failure of one probe never holds up another probe of the same call:
\* while some probe has failed, be it blocked on its error or not, every
\* other probe of the call that has not failed itself can take its next step
\* (read its sequence number, get its ping result, commit), and the call is
\* still waiting for it.
C5_FailureIsolation ==
    \A c \in Cycles : \A f \in ProbesOf(c) : \A id \in ProbesOf(c) \ {f} :
        (Failed(f) /\ ~Failed(id)) =>
            /\ probes[id].pc = "next" => ENABLED ProbeNext(id[1], id[2], id[3])
            /\ probes[id].pc = "ping" => ENABLED ProbePing(id[1], id[2], id[3])
            /\ probes[id].pc = "update" =>
                  ENABLED ProbeUpdate(id[1], id[2], id[3])
            /\ probes[id].pc = "report" =>
                  ENABLED ProbeReport(id[1], id[2], id[3])
            /\ probes[id].pc \in InFlight => cycles[c].pc = "wait"

C5_Witness ==
    \E c \in Cycles : \E f \in ProbesOf(c) : \E id \in ProbesOf(c) \ {f} :
        /\ probes[f].pc = "senderr"
        /\ probes[id].pc = "done" /\ ~probes[id].err
        /\ table[id[3]].count >= 1 /\ table[id[3]].timeouts = 0

\* C6: a probe whose ping failed never waits for its error to be consumed:
\* whenever it is about to send the error, it can go on whether or not Run
\* is taking values from k.echan.
C6_NonBlockingError ==
    \A id \in ProbeIds :
        (probes[id].pc = "senderr" /\ ~exited) =>
            ENABLED ProbeSendErr(id[1], id[2], id[3])

\* C7 as stated: at most one probe cycle is in progress at any time.
C7_NoOverlapOriginal ==
    Cardinality({c \in Cycles : cycles[c].pc \in Active}) <= 1

\* C7, amended: Heartbeat executions never overlap, since the next firing is
\* armed only when the previous Heartbeat returns; at any time at most one
\* Heartbeat is running or armed.  (The probe cycle a Heartbeat launches
\* runs on its own and may still be in progress at the next firing.)
C7_HeartbeatsDoNotOverlap ==
    beating + hbBlocked + Len(timers) <= 1

C7_Witness ==
    /\ Len(timers) = 1
    /\ \E c \in Cycles : cycles[c].pc \in Active /\ ProbesOf(c) # {}
    /\ \E c \in Cycles : cycles[c].pc = "neighbors"

\* The range of delays the contract gives for a base interval and a jitter.
Lo(base, jitter) == IF jitter < base THEN base - jitter ELSE base
Hi(base, jitter) == base + jitter

C9_ExactDelay ==
    [][Len(timers') > Len(timers) =>
          /\ Len(timers') = Len(timers) + 1
          /\ timers'[Len(timers')] = delay']_vars

C9_Witness ==
    /\ Len(timers) = 1 /\ timers[1] = delay /\ delay = MaxDelay
    /\ slots = 0

\* C10: NextSequence(peer) returns the peer's current count plus 1, creates
\* an empty record if the peer has none, and changes the count, timeouts,
\* mean, variance, minimum and maximum of no record.
C10_NextSequenceFrame ==
    [][\A id \in ProbeIds :
          (probes[id].pc = "next" /\ probes'[id].pc = "ping") =>
             /\ probes'[id].seq = table[id[3]].count + 1
             /\ table'[id[3]].present
             /\ ~table[id[3]].present => table'[id[3]] = EmptyRecord
             /\ \A q \in Peers :
                   /\ table'[q].count = table[q].count
                   /\ table'[q].timeouts = table[q].timeouts
                   /\ Mean(table'[q]) = Mean(table[q])
                   /\ Variance(table'[q]) = Variance(table[q])
                   /\ table'[q].minimum = table[q].minimum
                   /\ table'[q].maximum = table[q].maximum
                   /\ q # id[3] => table'[q] = table[q]]_vars

C10_Witness ==
    \E id \in ProbeIds :
        /\ probes[id].pc = "ping"
        /\ probes[id].seq = 2
        /\ table[id[3]].count = 1

\* The positions in calls of the calls of one kind made for host p.
CallsOf(kind, p) ==
    {i \in 1..Len(calls) : calls[i].op = kind /\ calls[i].host = p}

\* C11 as stated: in a sequence of calls made one at a time, NextSequence
\* never returns the same value twice for the same peer, and it returns 1
\* for a peer with no prior records.
C11_NeverTwiceOriginal ==
    \A p \in Peers : \A i, j \in CallsOf("Next", p) :
        /\ i < j => calls[i].val # calls[j].val
        /\ (\A k \in CallsOf("Update", p) : k > i) => calls[i].val = 1

\* C11, amended: in a sequence of calls made one at a time, two calls of
\* NextSequence for the same peer return different values when a Record for
\* that peer was made between them (the later value is the larger), they
\* return the same value when none was, and NextSequence returns 1 for a
\* peer with no prior records.
C11_DistinctAcrossRecords ==
    \A p \in Peers : \A i, j \in CallsOf("Next", p) :
        /\ i < j =>
              IF \E k \in CallsOf("Update", p) : i < k /\ k < j
              THEN calls[i].val < calls[j].val
              ELSE calls[i].val = calls[j].val
        /\ (\A k \in CallsOf("Update", p) : k > i) => calls[i].val = 1

C11_Witness ==
    \E p \in Peers :
        /\ Len(calls) = 4
        /\ \A i \in 1..4 : calls[i].host = p
        /\ calls[1].op = "Next" /\ calls[1].val = 1
        /\ calls[2].op = "Update" /\ calls[2].err
        /\ calls[3].op = "Next" /\ calls[3].val = 2
        /\ calls[4].op = "Next" /\ calls[4].val = 2

\* The Updates completed for host p, in order.
UpdatesOf(p) ==
    SelectSeq(calls, LAMBDA c : c.op = "Update" /\ c.host = p)

\* The record after the first k of a sequence of Updates.
RECURSIVE Aggregate(_, _)
Aggregate(ups, k) ==
    IF k = 0 THEN EmptyRecord
    ELSE BenchmarkUpdate(Aggregate(ups, k - 1),
                         Recorded(ups[k].err, ups[k].val))

\* C16: entries of the table are permanent and monotone: a call for a peer
\* leaves the peer with an entry, a peer that has an entry keeps it, and its
\* count and timeouts never decrease, under Next, Update and Report in any
\* order and interleaving.
C16_PermanentMonotone ==
    [][\A p \in Peers :
          /\ table[p].present =>
                /\ table'[p].present
                /\ table'[p].count >= table[p].count
                /\ table'[p].timeouts >= table[p].timeouts
          /\ (CallsOf("Next", p) \cup CallsOf("Update", p) # {}
               \/ writing[p].busy) => table[p].present]_vars

C16_Witness ==
    \E p \in Peers :
        /\ table[p].present /\ table[p].count >= 2 /\ table[p].timeouts >= 1
        /\ calls[1].op = "Next" /\ calls[1].host = p
        /\ calls[Len(calls)].op = "Next" /\ calls[Len(calls)].host = p
        /\ report.copy[p].present

\* C17: a Report that runs concurrently with Updates copies, for every
\* peer, the record as it was after some whole number of completed Updates,
\* never a record an Update has written in part; and Report holds a
\* record's lock only for the copy, which it can always finish.
C17_ConsistentSnapshot ==
    /\ \A p \in Peers : report.copy[p].present =>
          \E k \in 0..Len(UpdatesOf(p)) :
              report.copy[p] = Aggregate(UpdatesOf(p), k)
    /\ report.pc = "locked" => ENABLED ReportCopy

C17_Witness ==
    \E p, q \in Peers :
        /\ report.pc = "done"
        /\ report.copy[p].count = 1
        /\ table[p].count > 1 /\ writing[p].busy
        /\ report.copy[q].present /\ q # p

\* The durations recorded for host p that are not timeouts, in order.
SamplesOf(p) ==
    SelectSeq(calls, LAMBDA c : c.op = "Update" /\ c.host = p /\ ~c.err)

\* First pass: the sum of the samples.  Second pass: the sum of the squared
\* deviations from the mean sum / n, each scaled by n * n.
RECURSIVE SumOf(_, _)
SumOf(xs, k) == IF k = 0 THEN 0 ELSE SumOf(xs, k - 1) + xs[k].val
RECURSIVE ScaledSquares(_, _, _)
ScaledSquares(xs, k, sum) ==
    IF k = 0 THEN 0
    ELSE ScaledSquares(xs, k - 1, sum)
         + (Len(xs) * xs[k].val - sum) * (Len(xs) * xs[k].val - sum)

\* The two-pass mean and (sample) variance, as exact fractions.
BatchMean(xs) == <<SumOf(xs, Len(xs)), Len(xs)>>
BatchVariance(xs) ==
    <<ScaledSquares(xs, Len(xs), SumOf(xs, Len(xs))),
      Len(xs) * Len(xs) * (Len(xs) - 1)>>

\* Two fractions are the same number.
SameFraction(a, b) == a[1] * b[2] = b[1] * a[2]

\* C18: after every sequence of Updates, the mean and variance the record
\* gives for its N non-timeout durations are the mean and variance computed
\* in two passes over those N durations; timeouts recorded between them
\* change neither.
C18_MatchesTwoPass ==
    \A p \in Peers :
        /\ Samples(table[p]) = Len(SamplesOf(p))
        /\ Len(SamplesOf(p)) >= 1 =>
              SameFraction(Mean(table[p]), BatchMean(SamplesOf(p)))
        /\ Len(SamplesOf(p)) >= 2 =>
              SameFraction(Variance(table[p]), BatchVariance(SamplesOf(p)))

C18_Witness ==
    \E p \in Peers :
        /\ Len(SamplesOf(p)) = 3
        /\ table[p].timeouts = 1
        /\ calls[2].err
        /\ table[p].minimum = 1 /\ table[p].maximum = MaxDuration
        /\ Variance(table[p])[1] > 0

\* C12: a probe is committed as a timeout if and only if the echo client
\* returned an error for it: a failed ping comes with the zero duration, the
\* commit of a probe adds 1 to the host's timeouts when its ping failed and 0
\* when it succeeded, and the report built for it says timeout exactly when
\* its ping failed.
C12_TimeoutIffError ==
    [][\A id \in ProbeIds :
          /\ (probes[id].pc = "ping" /\ probes'[id].pc # "ping"
               /\ probes'[id].err) => probes'[id].lat = 0
          /\ (probes[id].pc = "update"
               /\ probes'[id].pc \in {"report", "done"}) =>
                /\ probes[id].lat = 0 <=> probes[id].err
                /\ table'[id[3]].timeouts =
                      table[id[3]].timeouts + (IF probes[id].err THEN 1 ELSE 0)
          /\ (probes[id].pc = "report"
               /\ probes'[id].pc \in {"done", "reporterr"}) =>
                (probes'[id].timeout <=> probes[id].err)]_vars

C12_Witness ==
    \E c \in Cycles : \E f, g \in ProbesOf(c) :
        /\ cycles[c].kind = "Latency" /\ cycles[c].pc = "returned"
        /\ probes[f].err /\ probes[f].timeout
        /\ table[f[3]].timeouts = 1 /\ table[f[3]].count = 1
        /\ ~probes[g].err /\ ~probes[g].timeout /\ probes[g].lat > 0
        /\ table[g[3]].timeouts = 0 /\ table[g[3]].count = 1

\* The call got no neighbor list to probe: the fetch failed, or it gave an
\* empty source, a nil list or an empty list.
NoNeighbors(cy) ==
    \/ cy.pc = "senderr"
    \/ cy.pc \in {"wait", "returned"} /\
          (cy.source = "" \/ ~cy.listed \/ cy.targets = {})

\* The steps by which call c finds that it has no neighbor list.
NoNeighborsStep(c) ==
    /\ cycles[c].pc \in {"neighbors", "senderr"}
    /\ cycles'[c].pc \in {"senderr", "wait", "returned"}
    /\ cycles'[c].pc # cycles[c].pc
    /\ NoNeighbors(cycles'[c])

\* C19 as stated: a cycle whose neighbor list is unavailable or empty issues
\* no ping, leaves the table unchanged and raises no error, and the
\* scheduler still runs later cycles.
C19_NoErrorOriginal ==
    [][\A c \in Cycles : NoNeighborsStep(c) =>
          /\ \A id \in ProbeIds : id[1] = c => probes'[id].pc = "none"
          /\ table' = table
          /\ cycles'[c].pc # "senderr"
          /\ timers' = timers /\ beating' = beating]_vars

\* C19, amended: a cycle whose neighbor list is unavailable or empty issues
\* no ping and leaves the table unchanged, and the scheduler still runs
\* later cycles: its timer and its Heartbeat stay as they are and an armed
\* timer can fire.  An empty source and a nil or empty list are silent; a
\* failed fetch is sent as an error on k.echan, and the cycle returns once
\* Run has received it.
C19_NothingToProbe ==
    [][\A c \in Cycles :
          /\ NoNeighborsStep(c) =>
                /\ \A id \in ProbeIds : id[1] = c => probes'[id].pc = "none"
                /\ table' = table
                /\ timers' = timers /\ beating' = beating
          /\ NoNeighbors(cycles[c]) =>
                /\ \A id \in ProbeIds : id[1] = c => probes[id].pc = "none"
                /\ Len(timers) > 0 => ENABLED HeartbeatFire
                /\ (cycles[c].pc = "senderr" /\ Receiving) =>
                      ENABLED NeighborsSendErr(c)]_vars

C19_Witness ==
    /\ cycles[1].kind = "Latency" /\ cycles[1].pc = "returned"
    /\ cycles[1].source = "" /\ ~cycles[1].listed
    /\ cycles[2].pc = "wait" /\ cycles[2].targets = Peers
    /\ \A p \in Peers : probes[<<2, 1, p>>].pc = "done" /\ table[p].count = 1
    /\ \A id \in ProbeIds : id[1] = 1 => probes[id].pc = "none"

\* C13: for every request (source, target, sequence), the response of the
\* echo server carries the request's source and sequence, and its target is
\* the server's own name whatever target the request carried.
C13_EchoResponse ==
    \A h \in Handlers : handlers[h].pc = "done" =>
        /\ handlers[h].out.source = handlers[h].req.source
        /\ handlers[h].out.sequence = handlers[h].req.sequence
        /\ handlers[h].out.target = ServerName

C13_Witness ==
    \E h \in Handlers :
        /\ handlers[h].pc = "done"
        /\ handlers[h].req.target # ServerName
        /\ handlers[h].req.source # ServerName
        /\ handlers[h].req.sequence = MaxSeq
        /\ handlers[h].out.target = ServerName

\* C14: the received-message counter is the number of Ping requests handled:
\* whenever no handler is running, s.messages is the number of handlers that
\* have returned, and a Shutdown that runs while no handler is running
\* prints that number -- also when handlers ran concurrently.
C14_CounterCountsRequests ==
    /\ (\A h \in Handlers : handlers[h].pc \in {"idle", "done"}) =>
          messages = Cardinality({h \in Handlers : handlers[h].pc = "done"})
    /\ (printed.shown /\ printed.busy = 0) => printed.value = printed.handled

\* The address ends in a port: one colon, a host without colons before it
\* and one or more digits after it.
HasPort(a) ==
    \E i \in 1..Len(a) :
        /\ a[i] = ":"
        /\ i < Len(a)
        /\ \A j \in (i + 1)..Len(a) : a[j] \in Digits
        /\ \A j \in 1..(i - 1) : a[j] # ":"

\* C15: an address with no port suffix resolves to the address followed by
\* ":3284", and an address that already has a port resolves to itself.
C15_ResolveAddr ==
    resolved # <<>> =>
        IF HasPort(addr) THEN resolved = addr
                         ELSE resolved = addr \o DefaultAddr

\* C20: the heartbeat never stops on errors: a Heartbeat that is executing,
\* or blocked sending its error, is followed by an armed timer, and an armed
\* timer by the next execution of Heartbeat, unless the process exits first.
C20_HeartbeatNeverStops ==
    /\ (beating + hbBlocked > 0) ~> (Len(timers) > 0 \/ exited)
    /\ (Len(timers) > 0) ~> (beating > 0 \/ exited)

C20_Witness ==
    /\ hbBlocked = 1 /\ Receiving /\ Len(timers) = 0
    /\ cycles[1].pc = "returned" /\ slots = 0

(* C21: no error in the heartbeat/probe subsystem is fatal: whatever the
   management service answers (a failure, a non-200 status, an undecodable or
   incomplete body), the error is reported and the goroutine returns; the
   process never panics.  The code does not keep this: a 200 response to
   GET /api/latency whose body is null makes Neighbors dereference nil. *)
C21_NoFatalError == runpc # "panicked"

(* C22: after Shutdown has completed (it has sent true on k.done and
   returned), no new Heartbeat starts and no new Latency cycle is launched.
   The code does not keep this: Shutdown leaves the timer of time.AfterFunc
   armed, and it may fire before the process exits. *)
C22_NothingStartsAfterShutdown ==
    [][(sigpc = "exit" /\ ~exited) =>
          /\ beating' <= beating
          /\ \A c \in Cycles : cycles[c].pc = "idle" => cycles'[c].pc = "idle"]_vars

\* A step in which Run's loop receives an error from k.echan.
ErrorReceived ==
    /\ Receiving /\ ~exited'
    /\ \/ hbBlocked' < hbBlocked
       \/ sigpc = "senderr" /\ sigpc' # "senderr"
       \/ \E c \in Cycles : cycles[c].pc = "senderr" /\ cycles'[c].pc # "senderr"
       \/ \E id \in ProbeIds :
             /\ probes[id].pc \in {"senderr", "reporterr"}
             /\ probes'[id].pc # probes[id].pc

(* C23: Run keeps running until shut down.  Run leaves its loop only by
   taking a value from k.done; a step that receives an error leaves Run in
   the loop; and every goroutine blocked sending an error while Run is in the
   loop has its error received, unless Run leaves the loop or the process
   exits first. *)
C23_RunUntilDone ==
    /\ [][(runpc = "loop" /\ runpc' # "loop" /\ ~exited') =>
            (done > 0 /\ done' = done - 1 /\ runpc' = "returned")]_vars
    /\ [][ErrorReceived => (runpc' = "loop" /\ done' = done)]_vars
    /\ (Receiving /\ hbBlocked > 0) ~> (hbBlocked = 0 \/ ~Receiving)
    /\ (Receiving /\ sigpc = "senderr") ~> (sigpc # "senderr" \/ ~Receiving)
    /\ \A c \in Cycles :
          (Receiving /\ cycles[c].pc = "senderr") ~>
              (cycles[c].pc # "senderr" \/ ~Receiving)
    /\ \A id \in ProbeIds :
          /\ (Receiving /\ probes[id].pc = "senderr") ~>
                 (probes[id].pc # "senderr" \/ ~Receiving)
          /\ (Receiving /\ probes[id].pc = "reporterr") ~>
                 (probes[id].pc # "reporterr" \/ ~Receiving)

\* Run has returned after it received the error of a failed ping and the
\* error of a failed report.
C23_Witness ==
    /\ runpc = "returned" /\ done = 0
    /\ \E p \in Peers :
          /\ probes[<<1, 1, p>>].err
          /\ probes[<<1, 1, p>>].pc = "done"
          /\ probes[<<1, 1, p>>].lat = 0
          /\ probes[<<1, 1, p>>].timeout

\* A step that starts a call of Latency.
LatencyLaunched ==
    \E c \in Cycles :
       cycles[c].pc = "idle" /\ cycles'[c].pc # "idle" /\ cycles'[c].kind = "Latency"

(* C24: Heartbeat starts a probe cycle only when the heartbeat succeeded and
   the host is active.  Latency is launched only by a Heartbeat that returns
   with a parsed response whose success and active are both true; a
   Heartbeat that returns with either flag false, or that goes to its error
   send, or whose error is received, launches nothing. *)
C24_LaunchOnlyIfSuccessAndActive ==
    /\ [][LatencyLaunched =>
            /\ response.got /\ response.success /\ response.active
            /\ beating' = beating - 1 /\ hbBlocked' = hbBlocked]_vars
    /\ [][(response.got /\ ~response'.got /\ ~exited'
            /\ ~(response.success /\ response.active)) => cycles' = cycles]_vars
    /\ [][(hbBlocked' # hbBlocked /\ ~exited') => cycles' = cycles]_vars

\* A Heartbeat has returned and launched the first Latency.
C24_Witness ==
    /\ cycles[1].kind = "Latency" /\ cycles[1].pc = "neighbors"
    /\ ~response.got /\ beating = 0 /\ hbBlocked = 0
    /\ slots = MaxCycles - 1

\* The components HealthCheck was given as failing, and the first of them.
Failing == {c \in Components : health.fails[c]}
FirstFailing == CHOOSE c \in Failing : \A d \in Failing : c <= d

(* C25: the error policy of HealthCheck.  With ignoreErrors false and a
   failing component it returns the error of the first failing component and
   a nil status, and has called no later component.  With ignoreErrors true
   it has called every component, and returns an error with a nil status
   exactly when all of them failed; otherwise it returns the status, which
   the components that succeeded have populated, and a nil error. *)
C25_HealthCheckPolicy ==
    health.pc = "returned" =>
       IF ~health.ignoreErrors
       THEN IF Failing # {}
            THEN /\ health.err = FirstFailing
                 /\ ~health.status
                 /\ health.called = 1..FirstFailing
            ELSE /\ health.err = 0 /\ health.status
                 /\ health.called = Components
       ELSE /\ health.called = Components
            /\ IF Failing = Components
               THEN health.err = AllFailedErr /\ ~health.status
               ELSE health.err = 0 /\ health.status

\* HealthCheck(true) has returned a partially populated status: some
\* components failed, not all.
C25_Witness ==
    /\ health.pc = "returned" /\ health.ignoreErrors
    /\ Failing # {} /\ Failing # Components
    /\ health.status /\ health.err = 0

(* C26: sequence numbers are not unique under concurrency.  Whenever a probe
   holds a sequence number it read for a peer and has not committed its
   record, any other probe of that peer that is about to read may read at
   once, and reads the same number: nothing orders the second read after the
   first commit. *)
C26_ReadsNotSerialised ==
    \A a, b \in ProbeIds :
       (/\ a # b /\ a[3] = b[3]
        /\ probes[a].pc = "ping" /\ probes[b].pc = "next"
        /\ probes[a].seq = table[a[3]].count + 1)
       => /\ ENABLED ProbeNext(b[1], b[2], b[3])
          /\ NextSequence(table, b[3]) = probes[a].seq

\* SendNPings(2): both probes of one peer have read the same sequence number
\* and neither has committed.
C26_Witness ==
    /\ cycles[1].kind = "SendNPings" /\ cycles[1].n = 2
    /\ \E p \in Peers :
          /\ probes[<<1, 1, p>>].pc = "ping" /\ probes[<<1, 2, p>>].pc = "ping"
          /\ probes[<<1, 1, p>>].seq = probes[<<1, 2, p>>].seq
          /\ probes[<<1, 1, p>>].seq >= 1
          /\ table[p].count = 0

(* C27 as stated: whenever Run has returned following a Shutdown, the PID
   file has been removed. *)
C27_PidRemovedOriginal == runpc = "returned" => ~pidfile

(* C27, amended: Shutdown finishes its cleanup before it releases Run.  The
   done signal is sent only after k.pid.Free() was called and after any error
   it returned was received by Run; so when the done signal is there, and
   when Run has returned, the PID file has been removed unless removing it
   failed. *)
C27_CleanupBeforeRelease ==
    /\ [](((done > 0 \/ runpc = "returned") /\ ~exited) => (pidfile <=> freeErr))
    /\ [][done' > done => sigpc = "notify"]_vars
    /\ [][(sigpc = "senderr" /\ sigpc' = "notify") => (Receiving /\ freeErr)]_vars

\* Run has returned after a Shutdown that removed the PID file.
C27_Witness ==
    /\ runpc = "returned" /\ sigpc = "exit" /\ ~exited
    /\ ~pidfile /\ ~freeErr

\* Some goroutine of call c (the call itself or one of its probes) can take
\* its next step.
CycleStep(c) ==
    \/ NeighborsFail(c)
    \/ NeighborsSendErr(c)
    \/ NeighborsOk(c)
    \/ CycleReturn(c)
    \/ \E i \in Rounds, p \in Peers :
          \/ ProbeNext(c, i, p)
          \/ ProbePing(c, i, p)
          \/ ProbeSendErr(c, i, p)
          \/ ProbeUpdate(c, i, p)
          \/ ProbeReport(c, i, p)
          \/ ProbeReportErr(c, i, p)

(* C28: every probe cycle terminates.  As every HTTP request and every echo
   RPC returns, a call of Latency that has not returned always has a
   goroutine that can take its next step, also after Shutdown has ended the
   Run loop.  The code does not keep this: a probe whose ping or report
   failed blocks on k.echan once Run has left its loop, and the call waits
   for it in group.Wait(). *)
C28_CycleCanProceed ==
    \A c \in Cycles :
       (cycles[c].kind = "Latency" /\ cycles[c].pc \in {"neighbors", "senderr", "wait"}
        /\ ~exited)
       => ENABLED CycleStep(c)

(* C29: within one probe the result is committed to the table before the
   report for it is sent, and a failed report neither prevents nor undoes
   the commit.  A probe comes to its report only by the step that adds its
   result to the record of its host, and the steps of the report (the post,
   its failure, the receipt of its error) leave the table as it is. *)
C29_CommitBeforeReport ==
    /\ [][\A id \in ProbeIds :
            (probes[id].pc # "report" /\ probes'[id].pc = "report") =>
               /\ probes[id].pc = "update"
               /\ table'[id[3]] = BenchmarkUpdate(GetOrCreate(table, id[3])[id[3]],
                                                  probes[id].lat)]_vars
    /\ [][\A id \in ProbeIds :
            (probes[id].pc \in {"report", "reporterr"}
             /\ probes'[id].pc # probes[id].pc /\ ~exited')
            => table' = table]_vars

\* The report of a committed probe has failed; its result is in the table.
C29_Witness ==
    \E p \in Peers :
       /\ probes[<<1, 1, p>>].pc = "reporterr"
       /\ ~probes[<<1, 1, p>>].err /\ probes[<<1, 1, p>>].lat = MaxLatency
       /\ table[p].count = 1 /\ table[p].total = MaxLatency

(* C30: for every peer, timeouts <= count; count is the number of Records
   completed for the peer, and timeouts the number of those whose duration
   was zero, which are those of the pings that returned an error. *)
C30_CountsMatchHistory ==
    \A p \in Peers :
       /\ table[p].timeouts <= table[p].count
       /\ table[p].count = Cardinality(CallsOf("Update", p))
       /\ table[p].timeouts =
             Cardinality({i \in CallsOf("Update", p) : calls[i].err})
       /\ \A i \in CallsOf("Update", p) : calls[i].err <=> calls[i].val = 0

\* Three Records for one peer, one of them of a failed ping.
C30_Witness ==
    \E p \in Peers :
       /\ Cardinality(CallsOf("Update", p)) = 3
       /\ table[p].count = 3 /\ table[p].timeouts = 1
       /\ calls[Len(calls)].err
====
